---- MODULE Spec2Model ----
(***************************************************************************)
(* sqirvy-cli (python): one command-line invocation, and the client        *)
(* library driven directly the way the repository's *_test.py scripts      *)
(* drive it.                                                               *)
(*                                                                         *)
(* Conventions.                                                            *)
(*  - Temperatures are thousandths: 1.0 is 1000, 0.01 is 10.               *)
(*  - Python's None is the string None below; a value is truthy when it    *)
(*    is neither None nor the empty string.                                *)
(*  - An optional object (Context, Client, Options, pending exception) is  *)
(*    a sequence of length 0 or 1.                                         *)
(*  - main.py hands the Context to new_client and to query_text, while     *)
(*    client.py and the provider clients declare the parameters (model)    *)
(*    and (system, prompts, options).  The model binds the Context's       *)
(*    model, system and prompts fields to those parameters.                *)
(***************************************************************************)
EXTENDS Integers, Sequences, FiniteSets, TLC

VARIABLES
    entry,      \* "main": a CLI run; "lib": the library called directly
    pc,         \* position of the run
    args,       \* argparse namespace (main)
    stdin,      \* [isatty, content, reads]
    stdin_content, \* the prompt main hands to create_context
    ctx,        \* the Context, <<>> until create_context returned one
    opts,       \* the Options object of a direct library call
    client,     \* the provider client, <<>> until a constructor returned one
    sdk,        \* the SDK side: handles constructed, invoke log
    calls,      \* ordered log of the calls main / the caller made
    exc,        \* the exception in flight, <<>> when none
    stdout,     \* what was printed, in order
    status,     \* process exit status, -1 while running
    environ,    \* the process environment, as far as the run has read it
    last,       \* the arguments of the last direct library call
    result      \* outcome of the last direct library call, <<>> before it

vars == <<entry, pc, args, stdin, stdin_content, ctx, opts, client, sdk, calls, exc,
          stdout, status, environ, last, result>>

None == "<None>"

Truthy(v) == v /= None /\ v /= ""

\* ------------------------------------------------------------------ bounds

MaxFiles == 2       \* longest positional file list
MaxPrompts == 2     \* longest prompts list of a direct query
MaxCalls == 2       \* direct query / close calls per client

\* ------------------------------------------------------------- sqirvy/models

ANTHROPIC == "anthropic"
GEMINI == "gemini"
OPENAI == "openai"
LLAMA == "llama"

Providers == {ANTHROPIC, OPENAI, GEMINI, LLAMA}

MODEL_ALIAS_Chained ==
    ("claude-3-7-sonnet" :> "claude-3-7-sonnet-latest") @@
    ("claude-3-5-sonnet" :> "claude-3-5-sonnet-latest") @@
    ("claude-3-5-haiku" :> "claude-3-5-haiku-latest") @@
    ("claude-3-opus" :> "claude-3-5-sonnet")

MODEL_ALIAS ==
    ("claude-3-7-sonnet" :> "claude-3-7-sonnet-latest") @@
    ("claude-3-5-sonnet" :> "claude-3-5-sonnet-latest") @@
    ("claude-3-5-haiku" :> "claude-3-5-haiku-latest") @@
    ("claude-3-opus" :> "claude-3-opus-latest")

MODEL_TO_PROVIDER ==
    ("claude-3-7-sonnet-20250219" :> ANTHROPIC) @@
    ("claude-3-5-sonnet-20241022" :> ANTHROPIC) @@
    ("claude-3-7-sonnet-latest" :> ANTHROPIC) @@
    ("claude-3-5-sonnet-latest" :> ANTHROPIC) @@
    ("claude-3-5-haiku-latest" :> ANTHROPIC) @@
    ("claude-3-haiku-20240307" :> ANTHROPIC) @@
    ("claude-3-opus-latest" :> ANTHROPIC) @@
    ("claude-3-opus-20240229" :> ANTHROPIC) @@
    ("gemini-2.0-flash" :> GEMINI) @@
    ("gemini-1.5-flash" :> GEMINI) @@
    ("gemini-1.5-pro" :> GEMINI) @@
    ("gemini-2.0-flash-thinking-exp" :> GEMINI) @@
    ("gemini-2.5-pro-exp-03-25" :> GEMINI) @@
    ("gpt-4o" :> OPENAI) @@
    ("gpt-4o-mini" :> OPENAI) @@
    ("gpt-4-turbo" :> OPENAI) @@
    ("llama3.3-70b" :> LLAMA)

\* Strings that are neither alias nor registry key.
UnknownModels == {"", "gpt-5", "claude-3-haiku", "GPT-4o", "anthropic"}

ModelNames == DOMAIN MODEL_TO_PROVIDER \cup DOMAIN MODEL_ALIAS \cup UnknownModels

\* An exception object.
Error(kind, msg, arg) == [kind |-> kind, msg |-> msg, arg |-> arg, code |-> 0]

\* The outcome of a call: a returned value or a raised exception.
Return(v) == [ok |-> TRUE, value |-> v]
Raise(e) == [ok |-> FALSE, error |-> e]

get_model_alias(model) ==
    IF model \in DOMAIN MODEL_ALIAS THEN MODEL_ALIAS[model] ELSE model

ProviderLookup_DefaultProvider(resolved_model) ==
    IF resolved_model \in DOMAIN MODEL_TO_PROVIDER
        THEN MODEL_TO_PROVIDER[resolved_model]
        ELSE OPENAI

\* dict.get: None when the key is absent.
ProviderLookup(resolved_model) ==
    IF resolved_model \in DOMAIN MODEL_TO_PROVIDER
        THEN MODEL_TO_PROVIDER[resolved_model]
        ELSE None

get_provider_name(model) ==
    LET resolved_model == get_model_alias(model)
        provider == ProviderLookup(resolved_model)
    IN  IF Truthy(provider)
            THEN Return(provider)
            ELSE Raise(Error("ValueError", "Unrecognized provider", resolved_model))

\* ------------------------------------------------------------ sqirvy/context

system_prompts ==
    ("query" :> "query_prompt") @@
    ("plan" :> "plan_prompt") @@
    ("code" :> "code_prompt") @@
    ("review" :> "review_prompt")

SUPPORTED_COMMANDS == <<"query", "plan", "code", "review", "help">>

SupportedCommandSet == {SUPPORTED_COMMANDS[i] : i \in DOMAIN SUPPORTED_COMMANDS}

\* system_prompts.get(command): None when the command has no entry.
SystemPromptFor(command) ==
    IF command \in DOMAIN system_prompts THEN system_prompts[command] ELSE None

\* The local file system the run sees: os.path.isfile and the text read.
FileNames == {"a.txt", "b.txt", "nofile.txt", "http://example.com"}

FileText == ("a.txt" :> "text of a.txt") @@ ("b.txt" :> "text of b.txt")

isfile(file) == file \in DOMAIN FileText

Context_DefaultProvider(command, model, provider, temperature, files, system, prompts) ==
    [command |-> command, model |-> model, provider |-> OPENAI,
     temperature |-> temperature, files |-> files, system |-> system,
     prompts |-> prompts]

Context(command, model, provider, temperature, files, system, prompts) ==
    [command |-> command, model |-> model, provider |-> provider,
     temperature |-> temperature, files |-> files, system |-> system,
     prompts |-> prompts]

\* A printed line: its fixed text and the value formatted into it.
Line(text, arg) == [text |-> text, arg |-> arg]

\* What a call that also prints leaves behind.
Printed(outcome, lines) == [outcome |-> outcome, printed |-> lines]

SysExit(code) == Raise([kind |-> "SystemExit", msg |-> "", arg |-> "", code |-> code])

DefaultPrompt_NoneOnly(prompt) ==
    IF prompt = None THEN "hello world" ELSE prompt

\* if not prompt or prompt == "": prompt = "hello world"
DefaultPrompt(prompt) ==
    IF ~Truthy(prompt) \/ prompt = "" THEN "hello world" ELSE prompt

RECURSIVE ReadFiles_SkipMissing(_, _, _)
ReadFiles_SkipMissing(files, i, prompts) ==
    IF i > Len(files)
        THEN Printed(Return(prompts), <<>>)
        ELSE ReadFiles_SkipMissing(files, i + 1,
                IF isfile(files[i]) THEN Append(prompts, FileText[files[i]])
                                    ELSE prompts)

RECURSIVE ReadFiles_Prepend(_, _, _)
ReadFiles_Prepend(files, i, prompts) ==
    IF i > Len(files)
        THEN Printed(Return(prompts), <<>>)
        ELSE IF ~isfile(files[i])
            THEN Printed(Raise(Error("FileNotFoundError", "", "")),
                         <<Line("File does not exist or is not a file", files[i]),
                           Line("File not found", files[i])>>)
            ELSE ReadFiles_Prepend(files, i + 1,
                    <<prompts[1], FileText[files[i]]>> \o Tail(prompts))

\* The loop over files: appends each file's text, stops at the first entry
\* that is not a file.
RECURSIVE ReadFiles(_, _, _)
ReadFiles(files, i, prompts) ==
    IF i > Len(files)
        THEN Printed(Return(prompts), <<>>)
        ELSE IF ~isfile(files[i])
            THEN Printed(Raise(Error("FileNotFoundError", "", "")),
                         <<Line("File does not exist or is not a file", files[i]),
                           Line("File not found", files[i])>>)
            ELSE ReadFiles(files, i + 1, Append(prompts, FileText[files[i]]))

\* if temperature <= 0 or temperature > 1.0
TemperatureInvalid_AcceptZero(temperature) == temperature < 0 \/ temperature > 1000

TemperatureInvalid_Never(temperature) == FALSE

TemperatureInvalid(temperature) == temperature <= 0 \/ temperature > 1000

create_context_ProviderLast(command, model, temperature, files, prompt) ==
    IF command \notin SupportedCommandSet
        THEN Printed(SysExit(1), <<Line("Invalid command", command)>>)
    ELSE IF ~Truthy(model)
        THEN Printed(SysExit(1), <<Line("Model is required.", "")>>)
    ELSE IF TemperatureInvalid(temperature)
        THEN Printed(SysExit(1),
                     <<Line("Temperature must be in range (0..1.0]", "")>>)
    ELSE
        LET system_prompt == SystemPromptFor(command)
            resolved == get_model_alias(model)
            read == ReadFiles(files, 1, <<DefaultPrompt(prompt)>>)
            provider == get_provider_name(resolved)
        IN  IF ~read.outcome.ok
                THEN read
            ELSE IF ~provider.ok
                THEN Printed(provider, read.printed)
            ELSE Printed(
                    Return(Context(command, resolved, provider.value,
                                   temperature, files, system_prompt,
                                   read.outcome.value)),
                    read.printed)

create_context(command, model, temperature, files, prompt) ==
    IF command \notin SupportedCommandSet
        THEN Printed(SysExit(1), <<Line("Invalid command", command)>>)
    ELSE IF ~Truthy(model)
        THEN Printed(SysExit(1), <<Line("Model is required.", "")>>)
    ELSE
        LET system_prompt == SystemPromptFor(command)
            resolved == get_model_alias(model)
            provider == get_provider_name(resolved)
        IN  IF ~provider.ok
                THEN Printed(provider, <<>>)
            ELSE IF TemperatureInvalid(temperature)
                THEN Printed(SysExit(1),
                             <<Line("Temperature must be in range (0..1.0]", "")>>)
            ELSE
                LET read == ReadFiles(files, 1, <<DefaultPrompt(prompt)>>)
                IN  IF ~read.outcome.ok
                        THEN read
                        ELSE Printed(
                                Return(Context(command, resolved, provider.value,
                                               temperature, files, system_prompt,
                                               read.outcome.value)),
                                read.printed)

\* ---------------------------------------------------------------- sqirvy/env

Upper ==
    (ANTHROPIC :> "ANTHROPIC") @@ (GEMINI :> "GEMINI") @@
    (OPENAI :> "OPENAI") @@ (LLAMA :> "LLAMA")

\* f"{provider.upper()}_API_KEY" and f"{provider.upper()}_BASE_URL"
ApiKeyVar ==
    ("ANTHROPIC" :> "ANTHROPIC_API_KEY") @@ ("GEMINI" :> "GEMINI_API_KEY") @@
    ("OPENAI" :> "OPENAI_API_KEY") @@ ("LLAMA" :> "LLAMA_API_KEY")

BaseUrlVar ==
    ("ANTHROPIC" :> "ANTHROPIC_BASE_URL") @@ ("GEMINI" :> "GEMINI_BASE_URL") @@
    ("OPENAI" :> "OPENAI_BASE_URL") @@ ("LLAMA" :> "LLAMA_BASE_URL")

\* What a variable of the process environment can hold: unset, empty, a value.
EnvValues == {None, "", "from-env"}

\* os.getenv(name, default) on the environment env (a function on the
\* variables that are set).
getenv(env, name, default) ==
    IF name \in DOMAIN env /\ env[name] /= None THEN env[name] ELSE default

get_env_var_NoneOnly(env, name, required, default) ==
    LET value == getenv(env, name, default)
    IN  IF required /\ value = None
            THEN Raise(Error("ValueError", "environment variable not set", name))
            ELSE Return(value)

get_env_var(env, name, required, default) ==
    LET value == getenv(env, name, default)
    IN  IF required /\ ~Truthy(value)
            THEN Raise(Error("ValueError", "environment variable not set", name))
            ELSE Return(value)

get_api_key(env, provider) ==
    get_env_var(env, ApiKeyVar[Upper[provider]], TRUE, None)

get_base_url_AlwaysRequired(env, provider, default) ==
    get_env_var(env, BaseUrlVar[Upper[provider]], TRUE, default)

get_base_url(env, provider, default) ==
    get_env_var(env, BaseUrlVar[Upper[provider]], default = None, default)

\* -------------------------------------------------------------- sqirvy/client

MAX_TOKENS_DEFAULT == 4096
MIN_TEMPERATURE == 10
MAX_TEMPERATURE == 1000
DEFAULT_TEMPERATURE_SCALE == 2000

\* An optional number: <<>> is None, <<n>> is n.
IsNone(x) == Len(x) = 0

Options_NoValidation(temperature, max_tokens, temperature_scale) ==
    LET temp_value == IF ~IsNone(temperature) THEN temperature[1] ELSE MIN_TEMPERATURE
    IN  Return([temperature |-> temp_value,
                max_tokens |->
                    IF ~IsNone(max_tokens) /\ max_tokens[1] > 0
                        THEN max_tokens[1]
                        ELSE MAX_TOKENS_DEFAULT,
                temperature_scale |->
                    IF ~IsNone(temperature_scale)
                        THEN temperature_scale
                        ELSE <<DEFAULT_TEMPERATURE_SCALE>>])

\* Options.__init__
Options(temperature, max_tokens, temperature_scale) ==
    LET temp_value == IF ~IsNone(temperature) THEN temperature[1] ELSE MIN_TEMPERATURE
    IN  IF ~(MIN_TEMPERATURE <= temp_value /\ temp_value <= MAX_TEMPERATURE)
            THEN Raise(Error("ValueError", "Temperature must be between", ""))
            ELSE Return([temperature |-> temp_value,
                         max_tokens |->
                            IF ~IsNone(max_tokens) /\ max_tokens[1] > 0
                                THEN max_tokens[1]
                                ELSE MAX_TOKENS_DEFAULT,
                         temperature_scale |->
                            IF ~IsNone(temperature_scale)
                                THEN temperature_scale
                                ELSE <<DEFAULT_TEMPERATURE_SCALE>>])

\* ------------------------------------------------------- the provider clients

\* A call of an SDK chat-model constructor.
Handle(cls, model, api_key, base_url) ==
    [cls |-> cls, model |-> model, api_key |-> api_key, base_url |-> base_url]

\* What a constructor leaves behind: its outcome and the SDK constructor
\* calls it made.
Built(outcome, handles) == [outcome |-> outcome, handles |-> handles]

\* try: llm = Chat...(...); return Client(llm)  except Exception: raise ValueError
Construct(cls, handle, init, failed) ==
    IF init = "ok"
        THEN Built(Return([cls |-> cls, llm |-> handle]), <<handle>>)
        ELSE Built(Raise(Error("ValueError", failed, init)), <<handle>>)

new_anthropic_client(model, env, init) ==
    LET provider == "anthropic"
        api_key == get_api_key(env, provider)
        base_url == get_base_url(env, provider, "https://api.anthropic.com")
    IN  IF ~api_key.ok THEN Built(api_key, <<>>)
        ELSE IF ~base_url.ok THEN Built(base_url, <<>>)
        ELSE Construct("AnthropicClient",
                       Handle("ChatAnthropic", model, api_key.value, base_url.value),
                       init, "Failed to create LangChain Anthropic client")

new_gemini_client(model, env, init) ==
    LET provider == "gemini"
        api_key == get_api_key(env, provider)
    IN  IF ~api_key.ok THEN Built(api_key, <<>>)
        ELSE Construct("GeminiClient",
                       Handle("ChatGoogleGenerativeAI", model, api_key.value, None),
                       init, "Failed to create LangChain Gemini client")

new_openai_client(model, env, init) ==
    LET provider == "openai"
        api_key == get_api_key(env, provider)
        base_url == get_base_url(env, provider, None)
    IN  IF ~api_key.ok THEN Built(api_key, <<>>)
        ELSE IF ~base_url.ok THEN Built(base_url, <<>>)
        ELSE Construct("OpenAIClient",
                       Handle("ChatOpenAI", model, api_key.value, base_url.value),
                       init, "Failed to create LangChain OpenAI client")

new_llama_client(model, env, init) ==
    LET provider == "llama"
        api_key == get_api_key(env, provider)
        base_url == get_base_url(env, provider, None)
    IN  IF ~api_key.ok THEN Built(api_key, <<>>)
        ELSE IF ~base_url.ok THEN Built(base_url, <<>>)
        ELSE Construct("LlamaClient",
                       Handle("ChatOpenAI", model, api_key.value, base_url.value),
                       init, "Failed to create LangChain client for Llama")

\* The constructor of each provider.
Constructor(provider, model, env, init) ==
    CASE provider = GEMINI -> new_gemini_client(model, env, init)
      [] provider = ANTHROPIC -> new_anthropic_client(model, env, init)
      [] provider = OPENAI -> new_openai_client(model, env, init)
      [] provider = LLAMA -> new_llama_client(model, env, init)

\* str.lower on the provider names.
Lower(s) ==
    IF \E p \in DOMAIN Upper : Upper[p] = s
        THEN CHOOSE p \in DOMAIN Upper : Upper[p] = s
        ELSE s

new_client_GeminiFirst(model, env, init) ==
    IF model \notin DOMAIN MODEL_TO_PROVIDER
        THEN [outcome |-> Raise(Error("KeyError", model, "")),
              handles |-> <<>>, constructors |-> <<>>]
        ELSE LET built == new_gemini_client(model, env, init)
             IN  [outcome |-> built.outcome, handles |-> built.handles,
                  constructors |-> <<GEMINI>>]

new_client_Fallback(model, env, init) ==
    IF model \notin DOMAIN MODEL_TO_PROVIDER
        THEN [outcome |-> Raise(Error("KeyError", model, "")),
              handles |-> <<>>, constructors |-> <<>>]
        ELSE
            LET provider == Lower(MODEL_TO_PROVIDER[model])
                built == Constructor(provider, model, env, init)
                other == new_openai_client(model, env, "ok")
            IN  IF built.outcome.ok
                    THEN [outcome |-> built.outcome, handles |-> built.handles,
                          constructors |-> <<provider>>]
                    ELSE [outcome |-> other.outcome,
                          handles |-> built.handles \o other.handles,
                          constructors |-> <<provider, OPENAI>>]

\* new_client: [outcome, handles, constructors called].
new_client(model, env, init) ==
    IF model \notin DOMAIN MODEL_TO_PROVIDER
        THEN [outcome |-> Raise(Error("KeyError", model, "")),
              handles |-> <<>>, constructors |-> <<>>]
        ELSE
            LET provider == Lower(MODEL_TO_PROVIDER[model])
            IN  IF provider \in {GEMINI, ANTHROPIC, OPENAI, LLAMA}
                    THEN LET built == Constructor(provider, model, env, init)
                         IN  [outcome |-> built.outcome, handles |-> built.handles,
                              constructors |-> <<provider>>]
                    ELSE [outcome |-> Raise(Error("ValueError", "Unsupported provider",
                                                  provider)),
                          handles |-> <<>>, constructors |-> <<>>]

\* --------------------------------------------------------------- sqirvy/query

SystemMessage(content) == [role |-> "system", content |-> content]
HumanMessage(content) == [role |-> "user", content |-> content]

\* messages = [SystemMessage(system)]; for p in prompts: messages.append(...)
RECURSIVE AppendPrompts(_, _, _)
AppendPrompts(messages, prompts, i) ==
    IF i > Len(prompts)
        THEN messages
        ELSE AppendPrompts(Append(messages, HumanMessage(prompts[i])), prompts, i + 1)

BuildMessages_SkipFirst(system, prompts) ==
    AppendPrompts(<<SystemMessage(system)>>, prompts, 2)

BuildMessages(system, prompts) ==
    AppendPrompts(<<SystemMessage(system)>>, prompts, 1)

\* What llm.invoke can do: return a response carrying content, return one
\* without a content attribute, or raise.
SdkRaises == {"ValueError", "RateLimitError"}

SdkOutcomes ==
    {[kind |-> "content", text |-> t] : t \in {"response text", ""}}
    \cup {[kind |-> "no_content", text |-> ""]}
    \cup {[kind |-> k, text |-> "sdk message"] : k \in SdkRaises}

\* The exception classes an `except ValueError` clause catches.
IsValueError(e) == e.kind = "ValueError"

\* The try block around llm.invoke: the exception or value it ends with.
InvokeAndExtract(outcome) ==
    CASE outcome.kind = "content" -> Return(outcome.text)
      [] outcome.kind = "no_content" ->
            Raise(Error("ValueError", "Failed to parse content from LLM response.", ""))
      [] OTHER -> Raise(Error(outcome.kind, outcome.text, ""))

\* except ValueError as e: raise ValueError(f"LangChain API query failed: {e}")
WrapValueError(tried) ==
    IF ~tried.ok /\ IsValueError(tried.error)
        THEN Raise(Error("ValueError", "LangChain API query failed", tried.error.msg))
        ELSE tried

\* What a query leaves behind: its outcome and the message lists handed to
\* llm.invoke.
Queried(outcome, invoked) == [outcome |-> outcome, invoked |-> invoked]

query_text_langchain_NoEmptyCheck(system, prompts, outcome) ==
    LET messages == BuildMessages(system, prompts)
    IN  Queried(WrapValueError(InvokeAndExtract(outcome)), <<messages>>)

query_text_langchain_Retry(system, prompts, outcome) ==
    IF Len(prompts) = 0
        THEN Queried(Raise(Error("ValueError",
                                 "Prompts list cannot be empty for text query.", "")),
                     <<>>)
        ELSE LET messages == BuildMessages(system, prompts)
                 tried == WrapValueError(InvokeAndExtract(outcome))
             IN  Queried(tried, IF tried.ok THEN <<messages>>
                                            ELSE <<messages, messages>>)

query_text_langchain(system, prompts, outcome) ==
    IF Len(prompts) = 0
        THEN Queried(Raise(Error("ValueError",
                                 "Prompts list cannot be empty for text query.", "")),
                     <<>>)
        ELSE LET messages == BuildMessages(system, prompts)
             IN  Queried(WrapValueError(InvokeAndExtract(outcome)), <<messages>>)

\* The temperature_scale prologue of each provider's query_text: the scale
\* the Options object holds when the prologue is done.
ANTHROPIC_TEMP_SCALE == 1000
GEMINI_TEMP_SCALE == 1000
OPENAI_TEMP_SCALE == DEFAULT_TEMPERATURE_SCALE
LLAMA_TEMP_SCALE == 1000

ScaleAfter(cls, temperature_scale) ==
    CASE cls = "AnthropicClient" ->
            IF IsNone(temperature_scale) THEN <<ANTHROPIC_TEMP_SCALE>>
            ELSE IF temperature_scale[1] /= ANTHROPIC_TEMP_SCALE
                THEN <<ANTHROPIC_TEMP_SCALE>>
                ELSE temperature_scale
      [] cls = "GeminiClient" ->
            IF IsNone(temperature_scale) THEN <<GEMINI_TEMP_SCALE>>
            ELSE temperature_scale
      [] cls = "OpenAIClient" ->
            IF IsNone(temperature_scale) THEN <<OPENAI_TEMP_SCALE>>
            ELSE temperature_scale
      [] cls = "LlamaClient" ->
            IF IsNone(temperature_scale) THEN <<LLAMA_TEMP_SCALE>>
            ELSE temperature_scale

\* ------------------------------------------------------------------- inputs

CommandArgs == SupportedCommandSet \cup {"bogus"}

ModelArgs == {None, "", "claude-3-5-sonnet", "claude-3-opus-latest",
              "gemini-1.5-pro", "gpt-4o", "llama3.3-70b", "gpt-5"}

TemperatureArgs == {-100, 0, 5, 500, 1000, 1500}

FileLists == UNION {[1..n -> FileNames] : n \in 0..MaxFiles}

StdinTexts == {"", " ", "explain this"}

AllEnvVars == {ApiKeyVar[u] : u \in DOMAIN ApiKeyVar} \cup
              {BaseUrlVar[u] : u \in DOMAIN BaseUrlVar}

\* Environments in which the two variables of one provider take every
\* combination of unset / empty / set, the other providers being configured.
EnvironsFor(provider) ==
    {[v \in AllEnvVars |->
        IF v = ApiKeyVar[Upper[provider]] THEN k
        ELSE IF v = BaseUrlVar[Upper[provider]] THEN u
        ELSE "from-env"] : k \in EnvValues, u \in EnvValues}

SdkInits == {"ok", "sdk init failed"}

\* --------------------------------------------------------------------- Init

Init ==
    /\ entry \in {"main", "lib"}
    /\ pc = "start"
    /\ args = [help |-> FALSE, command |-> "query", model |-> None,
               temperature |-> 1000, files_or_urls |-> <<>>]
    /\ stdin = [isatty |-> TRUE, content |-> "", reads |-> 0]
    /\ stdin_content = ""
    /\ ctx = <<>>
    /\ opts = <<>>
    /\ client = <<>>
    /\ sdk = [handles |-> <<>>, invoked |-> <<>>]
    /\ calls = <<>>
    /\ exc = <<>>
    /\ stdout = <<>>
    /\ status = -1
    /\ environ = <<>>
    /\ last = [op |-> ""]
    /\ result = <<>>

\* ---------------------------------------------------------------------- main

HelpText == Line("help", "")

\* parse_arguments: argparse rejects a command outside choices with status 2.
ParseArguments ==
    /\ entry = "main" /\ pc = "start"
    /\ \E help \in BOOLEAN, command \in CommandArgs, model \in ModelArgs,
          temperature \in TemperatureArgs, files \in FileLists :
        /\ args' = [help |-> help, command |-> command, model |-> model,
                    temperature |-> temperature, files_or_urls |-> files]
        /\ IF command \in SupportedCommandSet
              THEN pc' = "parsed" /\ status' = status
              ELSE pc' = "exited" /\ status' = 2
    /\ calls' = Append(calls, "parse_arguments")
    /\ UNCHANGED <<entry, stdin, stdin_content, ctx, opts, client, sdk, exc, stdout,
                   environ, last, result>>

MainCheckArgs_NoModelCheck ==
    /\ entry = "main" /\ pc = "parsed"
    /\ IF args.help
          THEN /\ stdout' = Append(stdout, HelpText)
               /\ status' = 0
               /\ pc' = "exited"
          ELSE /\ pc' = "stdin"
               /\ UNCHANGED <<stdout, status>>
    /\ UNCHANGED <<entry, args, stdin, stdin_content, ctx, opts, client, sdk, calls,
                   exc, environ, last, result>>

\* main, up to the stdin read: the help flag and the missing model.
MainCheckArgs ==
    /\ entry = "main" /\ pc = "parsed"
    /\ IF args.help
          THEN /\ stdout' = Append(stdout, HelpText)
               /\ status' = 0
               /\ pc' = "exited"
       ELSE IF ~Truthy(args.model)
          THEN /\ stdout' = stdout \o <<HelpText, Line("Error: Model is required", "")>>
               /\ status' = 1
               /\ pc' = "exited"
       ELSE /\ pc' = "stdin"
            /\ UNCHANGED <<stdout, status>>
    /\ UNCHANGED <<entry, args, stdin, stdin_content, ctx, opts, client, sdk, calls,
                   exc, environ, last, result>>

ReadStdin_AlwaysRead ==
    /\ entry = "main" /\ pc = "stdin"
    /\ \E isatty \in BOOLEAN, text \in StdinTexts :
        /\ stdin' = [isatty |-> isatty, content |-> text,
                     reads |-> stdin.reads + 1]
        /\ stdin_content' = text
    /\ pc' = "create_context"
    /\ UNCHANGED <<entry, args, ctx, opts, client, sdk, calls, exc, stdout, status,
                   environ, last, result>>

\* if not sys.stdin.isatty(): stdin_content = sys.stdin.read()
ReadStdin ==
    /\ entry = "main" /\ pc = "stdin"
    /\ \E isatty \in BOOLEAN :
        IF ~isatty
            THEN \E text \in StdinTexts :
                    /\ stdin' = [isatty |-> FALSE, content |-> text,
                                  reads |-> stdin.reads + 1]
                    /\ stdin_content' = text
            ELSE /\ stdin' = [isatty |-> TRUE, content |-> "typed at the terminal",
                               reads |-> stdin.reads]
                 /\ stdin_content' = ""
    /\ pc' = "create_context"
    /\ UNCHANGED <<entry, args, ctx, opts, client, sdk, calls, exc, stdout, status,
                   environ, last, result>>

CreateContext ==
    /\ entry = "main" /\ pc = "create_context"
    /\ LET made == create_context(args.command, args.model, args.temperature,
                                  args.files_or_urls, stdin_content)
       IN  /\ stdout' = stdout \o made.printed
           /\ IF made.outcome.ok
                 THEN ctx' = <<made.outcome.value>> /\ exc' = exc /\ pc' = "new_client"
                 ELSE ctx' = ctx /\ exc' = <<made.outcome.error>> /\ pc' = "raised"
    /\ calls' = Append(calls, "create_context")
    /\ UNCHANGED <<entry, args, stdin, stdin_content, opts, client, sdk, status,
                   environ, last, result>>

NewClient_OverwritesProvider ==
    /\ entry = "main" /\ pc = "new_client"
    /\ \E env \in EnvironsFor(ctx[1].provider), init \in SdkInits :
        LET made == new_client(ctx[1].model, env, init)
        IN  /\ environ' = env
            /\ sdk' = [sdk EXCEPT !.handles = @ \o made.handles]
            /\ calls' = calls \o <<"new_client">> \o made.constructors
            /\ ctx' = <<[ctx[1] EXCEPT !.provider = Upper[@]]>>
            /\ IF made.outcome.ok
                  THEN client' = <<made.outcome.value>> /\ exc' = exc
                       /\ pc' = "query_text"
                  ELSE client' = client /\ exc' = <<made.outcome.error>>
                       /\ pc' = "raised"
    /\ UNCHANGED <<entry, args, stdin, stdin_content, opts, stdout, status,
                   last, result>>

\* client = new_client(context)
NewClient ==
    /\ entry = "main" /\ pc = "new_client"
    /\ \E env \in EnvironsFor(ctx[1].provider), init \in SdkInits :
        LET made == new_client(ctx[1].model, env, init)
        IN  /\ environ' = env
            /\ sdk' = [sdk EXCEPT !.handles = @ \o made.handles]
            /\ calls' = calls \o <<"new_client">> \o made.constructors
            /\ IF made.outcome.ok
                  THEN client' = <<made.outcome.value>> /\ exc' = exc
                       /\ pc' = "query_text"
                  ELSE client' = client /\ exc' = <<made.outcome.error>>
                       /\ pc' = "raised"
    /\ UNCHANGED <<entry, args, stdin, stdin_content, ctx, opts, stdout, status,
                   last, result>>

\* response = client.query_text(context); print(response)
QueryText ==
    /\ entry = "main" /\ pc = "query_text"
    /\ \E outcome \in SdkOutcomes :
        LET made == query_text_langchain(ctx[1].system, ctx[1].prompts, outcome)
        IN  /\ sdk' = [sdk EXCEPT !.invoked = @ \o made.invoked]
            /\ IF made.outcome.ok
                  THEN /\ stdout' = Append(stdout, Line("response", made.outcome.value))
                       /\ status' = 0
                       /\ exc' = exc
                       /\ pc' = "exited"
                  ELSE /\ exc' = <<made.outcome.error>>
                       /\ pc' = "raised"
                       /\ UNCHANGED <<stdout, status>>
    /\ calls' = Append(calls, "query_text")
    /\ UNCHANGED <<entry, args, stdin, stdin_content, ctx, opts, client, environ,
                   last, result>>

\* The except clauses of main: ValueError, FileNotFoundError, Exception.
MainExcept ==
    /\ entry = "main" /\ pc = "raised"
    /\ exc[1].kind /= "SystemExit"
    /\ stdout' = stdout \o
            <<HelpText,
              IF exc[1].kind \in {"ValueError", "FileNotFoundError"}
                  THEN Line("Error", exc[1].msg)
                  ELSE Line("Unexpected error", exc[1].msg)>>
    /\ status' = 1
    /\ pc' = "exited"
    /\ UNCHANGED <<entry, args, stdin, stdin_content, ctx, opts, client, sdk, calls,
                   exc, environ, last, result>>

\* sys.exit inside create_context: SystemExit is not an Exception, no except
\* clause of main takes it and the interpreter exits with its code.
SystemExitRaised ==
    /\ entry = "main" /\ pc = "raised"
    /\ exc[1].kind = "SystemExit"
    /\ status' = exc[1].code
    /\ pc' = "exited"
    /\ UNCHANGED <<entry, args, stdin, stdin_content, ctx, opts, client, sdk, calls,
                   exc, stdout, environ, last, result>>

\* ------------------------------------------- the library called directly

\* The model each *_test.py script constructs its client with.
TEST_MODEL ==
    (ANTHROPIC :> "claude-3-haiku-20240307") @@ (OPENAI :> "gpt-4o-mini") @@
    (GEMINI :> "gemini-1.5-flash") @@ (LLAMA :> "llama3.3-70b")

PromptTexts == {"p", "q"}

PromptLists == UNION {[1..n -> PromptTexts] : n \in 0..MaxPrompts}

OptionTemperatures == {<<>>, <<5>>, <<1000>>, <<1500>>}
OptionMaxTokens == {<<>>, <<0>>, <<MAX_TOKENS_DEFAULT>>}
OptionScales == {<<>>, <<1000>>, <<2000>>}

\* get_provider_name(get_model_alias(name)) on any name.
LibProviderName ==
    /\ entry = "lib" /\ pc = "start"
    /\ \E name \in ModelNames :
        /\ last' = [op |-> "get_provider_name", name |-> name]
        /\ result' = <<get_provider_name(get_model_alias(name))>>
    /\ pc' = "returned"
    /\ UNCHANGED <<entry, args, stdin, stdin_content, ctx, opts, client, sdk, calls,
                   exc, stdout, status, environ>>

\* client = new_<provider>_client(TEST_MODEL)
LibNewProviderClient ==
    /\ entry = "lib" /\ pc = "start"
    /\ \E provider \in Providers :
       \E env \in EnvironsFor(provider), init \in SdkInits :
        LET built == Constructor(provider, TEST_MODEL[provider], env, init)
        IN  /\ environ' = env
            /\ last' = [op |-> "new_provider_client", provider |-> provider]
            /\ result' = <<built.outcome>>
            /\ sdk' = [sdk EXCEPT !.handles = @ \o built.handles]
            /\ IF built.outcome.ok
                  THEN client' = <<built.outcome.value>> /\ pc' = "lib_client"
                  ELSE client' = client /\ pc' = "returned"
    /\ UNCHANGED <<entry, args, stdin, stdin_content, ctx, opts, calls, exc, stdout,
                   status>>

\* opts = Options(temperature, max_tokens, temperature_scale)
LibOptions ==
    /\ entry = "lib" /\ pc = "lib_client" /\ opts = <<>> /\ calls = <<>>
    /\ \E temperature \in OptionTemperatures, max_tokens \in OptionMaxTokens,
          temperature_scale \in OptionScales :
        LET made == Options(temperature, max_tokens, temperature_scale)
        IN  /\ last' = [op |-> "Options", temperature |-> temperature,
                        max_tokens |-> max_tokens,
                        temperature_scale |-> temperature_scale]
            /\ result' = <<made>>
            /\ IF made.ok
                  THEN opts' = <<made.value>> /\ pc' = pc
                  ELSE opts' = opts /\ pc' = "returned"
    /\ UNCHANGED <<entry, args, stdin, stdin_content, ctx, client, sdk, calls, exc,
                   stdout, status, environ>>

\* client.query_text(system, prompts, opts): the provider's temperature_scale
\* prologue, then query_text_langchain.
LibQueryText ==
    /\ entry = "lib" /\ pc = "lib_client" /\ opts /= <<>>
    /\ Len(calls) < MaxCalls
    /\ \E prompts \in PromptLists, outcome \in SdkOutcomes :
        LET system == "you are a helpful assistant"
            made == query_text_langchain(system, prompts, outcome)
        IN  /\ last' = [op |-> "query_text", system |-> system, prompts |-> prompts,
                        options |-> opts[1], invoked |-> made.invoked]
            /\ opts' = <<[opts[1] EXCEPT !.temperature_scale =
                                ScaleAfter(client[1].cls, @)]>>
            /\ sdk' = [sdk EXCEPT !.invoked = @ \o made.invoked]
            /\ result' = <<made.outcome>>
    /\ calls' = Append(calls, "query_text")
    /\ UNCHANGED <<entry, pc, args, stdin, stdin_content, ctx, client, exc, stdout,
                   status, environ>>

LibClose_DropsHandle ==
    /\ entry = "lib" /\ pc = "lib_client"
    /\ Len(calls) < MaxCalls
    /\ last' = [op |-> "close", client |-> client, sdk |-> sdk]
    /\ result' = <<Return(None)>>
    /\ client' = <<[client[1] EXCEPT !.llm.model = "closed"]>>
    /\ calls' = Append(calls, "close")
    /\ UNCHANGED <<entry, pc, args, stdin, stdin_content, ctx, opts, sdk, exc,
                   stdout, status, environ>>

\* client.close(): the body is empty.
LibClose ==
    /\ entry = "lib" /\ pc = "lib_client"
    /\ Len(calls) < MaxCalls
    /\ last' = [op |-> "close", client |-> client, sdk |-> sdk]
    /\ result' = <<Return(None)>>
    /\ calls' = Append(calls, "close")
    /\ UNCHANGED <<entry, pc, args, stdin, stdin_content, ctx, opts, client, sdk, exc,
                   stdout, status, environ>>

\* get_base_url(provider) and get_base_url(provider, default)
BaseUrlDefaults == {None, "https://api.anthropic.com"}

LibGetBaseUrl ==
    /\ entry = "lib" /\ pc = "start"
    /\ \E provider \in Providers, default \in BaseUrlDefaults :
       \E env \in EnvironsFor(provider) :
        /\ environ' = env
        /\ last' = [op |-> "get_base_url", provider |-> provider,
                    default |-> default]
        /\ result' = <<get_base_url(env, provider, default)>>
    /\ pc' = "returned"
    /\ UNCHANGED <<entry, args, stdin, stdin_content, ctx, opts, client, sdk, calls,
                   exc, stdout, status>>

\* client = new_client(model) on any name
LibNewClient ==
    /\ entry = "lib" /\ pc = "start"
    /\ \E model \in ModelNames, provider \in Providers :
       \E env \in EnvironsFor(provider), init \in SdkInits :
        LET made == new_client(model, env, init)
        IN  /\ environ' = env
            /\ last' = [op |-> "new_client", model |-> model]
            /\ result' = <<made.outcome>>
            /\ calls' = made.constructors
            /\ sdk' = [sdk EXCEPT !.handles = @ \o made.handles]
    /\ pc' = "returned"
    /\ UNCHANGED <<entry, args, stdin, stdin_content, ctx, opts, client, exc, stdout,
                   status>>

PromptArgs == StdinTexts \cup {None}

\* context = create_context(command, model, temperature, files, prompt)
LibCreateContext ==
    /\ entry = "lib" /\ pc = "start"
    /\ \E command \in CommandArgs, model \in ModelArgs,
          temperature \in TemperatureArgs, files \in FileLists,
          prompt \in PromptArgs :
        LET made == create_context(command, model, temperature, files, prompt)
        IN  /\ last' = [op |-> "create_context", command |-> command,
                        model |-> model, temperature |-> temperature,
                        files |-> files, prompt |-> prompt]
            /\ result' = <<made.outcome>>
            /\ stdout' = made.printed
    /\ pc' = "returned"
    /\ UNCHANGED <<entry, args, stdin, stdin_content, ctx, opts, client, sdk, calls,
                   exc, status, environ>>

Next ==
    \/ ParseArguments
    \/ MainCheckArgs
    \/ ReadStdin
    \/ CreateContext
    \/ NewClient
    \/ QueryText
    \/ MainExcept
    \/ SystemExitRaised
    \/ LibProviderName
    \/ LibNewProviderClient
    \/ LibOptions
    \/ LibQueryText
    \/ LibClose
    \/ LibGetBaseUrl
    \/ LibNewClient
    \/ LibCreateContext

Spec == Init /\ [][Next]_vars

TypeOK ==
    /\ entry \in {"main", "lib"}
    /\ status \in {-1, 0, 1, 2}
    /\ Len(ctx) <= 1 /\ Len(client) <= 1 /\ Len(exc) <= 1 /\ Len(opts) <= 1

\* ------------------------------------------------------------ claim helpers

Called(op) == \E i \in DOMAIN calls : calls[i] = op

Times(op) == Cardinality({i \in DOMAIN calls : calls[i] = op})

\* The position of the first call of op in the log, 0 when it was not called.
FirstCall(op) ==
    IF Called(op) THEN CHOOSE i \in DOMAIN calls :
                            calls[i] = op /\ \A j \in 1..(i - 1) : calls[j] /= op
                  ELSE 0

Recognized(model) == get_model_alias(model) \in DOMAIN MODEL_TO_PROVIDER

InRange(temperature) == temperature > 0 /\ temperature <= 1000

AllFilesExist(files) == \A i \in DOMAIN files : isfile(files[i])

NoSdkActivity == sdk.handles = <<>> /\ sdk.invoked = <<>>

LookedUp == entry = "lib" /\ last.op = "get_provider_name"

DirectQuery == entry = "lib" /\ last.op = "query_text"

DirectConstruction == entry = "lib" /\ last.op = "new_provider_client"

\* The messages a query must hand to the SDK for (system, prompts).
MessagesAre(messages, system, prompts) ==
    /\ Len(messages) = Len(prompts) + 1
    /\ messages[1] = [role |-> "system", content |-> system]
    /\ \A i \in 1..Len(prompts) :
            messages[i + 1] = [role |-> "user", content |-> prompts[i]]

\* ------------------------------------------------------------------- claims

\* C1: for every key of the model-to-provider table,
\* get_provider_name(get_model_alias(name)) returns one of anthropic, openai,
\* gemini, llama; for every name whose alias-resolved form is not a key it
\* raises the unrecognized-model error and returns no provider.
C1_ProviderOrUnrecognized ==
    LookedUp =>
        /\ last.name \in DOMAIN MODEL_TO_PROVIDER =>
                result[1].ok /\ result[1].value \in Providers
        /\ ~Recognized(last.name) =>
                /\ ~result[1].ok
                /\ result[1].error.kind = "ValueError"
                /\ result[1].error.msg = "Unrecognized provider"

C1_Witness ==
    /\ LookedUp /\ last.name = "gpt-5"
    /\ ~result[1].ok /\ result[1].error.msg = "Unrecognized provider"

Blank(text) == text \in {"", " "}

\* C4 (as stated): every Context returned by create_context has a non-empty
\* prompts list whose first entry is "hello world" when the prompt argument
\* is empty or whitespace only, and the prompt argument otherwise.
C4_BlankPromptDefaulted ==
    (entry = "main" /\ ctx /= <<>>) =>
        /\ Len(ctx[1].prompts) >= 1
        /\ ctx[1].prompts[1] =
                IF Blank(stdin_content) THEN "hello world" ELSE stdin_content

\* C4 (amended): every Context returned by create_context has a non-empty
\* prompts list; its first entry is "hello world" when the prompt argument
\* is the empty string, and the prompt argument unchanged otherwise, a
\* whitespace-only prompt included; an empty prompt with no files gives
\* exactly <<"hello world">>.
C4_EmptyPromptDefaulted ==
    (entry = "main" /\ ctx /= <<>>) =>
        /\ Len(ctx[1].prompts) >= 1
        /\ ctx[1].prompts[1] =
                IF stdin_content = "" THEN "hello world" ELSE stdin_content
        /\ (stdin_content = "" /\ args.files_or_urls = <<>>) =>
                ctx[1].prompts = <<"hello world">>

C4_Witness ==
    /\ entry = "main" /\ ctx /= <<>>
    /\ stdin_content = "" /\ args.files_or_urls = <<>>
    /\ ctx[1].prompts = <<"hello world">>

\* C5 (as stated): whenever create_context is called with a files entry that
\* is not an existing file, it raises FileNotFoundError, returns no Context
\* and no provider-client constructor or SDK call is reached.
C5_MissingFileAlwaysFileNotFound ==
    (entry = "main" /\ Called("create_context")
        /\ ~AllFilesExist(args.files_or_urls)) =>
        /\ ctx = <<>>
        /\ exc /= <<>> /\ exc[1].kind = "FileNotFoundError"
        /\ ~Called("new_client") /\ NoSdkActivity

\* C5 (amended): whenever create_context is called with a files entry that
\* is not an existing file, it returns no Context and no provider-client
\* constructor or SDK call is reached; the error it raises is
\* FileNotFoundError when the model is recognized and the temperature is in
\* range, the unrecognized-model or temperature error otherwise.
C5_MissingFileNoClient ==
    (entry = "main" /\ Called("create_context")
        /\ ~AllFilesExist(args.files_or_urls)) =>
        /\ ctx = <<>> /\ client = <<>>
        /\ exc /= <<>>
        /\ exc[1].kind =
                IF ~Recognized(args.model) THEN "ValueError"
                ELSE IF ~InRange(args.temperature) THEN "SystemExit"
                ELSE "FileNotFoundError"
        /\ ~Called("new_client") /\ NoSdkActivity

C5_Witness ==
    /\ entry = "main" /\ pc = "exited" /\ status = 1
    /\ args.files_or_urls = <<"a.txt", "nofile.txt">>
    /\ exc /= <<>> /\ exc[1].kind = "FileNotFoundError"
    /\ ctx = <<>> /\ NoSdkActivity

BadInput ==
    \/ args.command \notin SupportedCommandSet
    \/ ~Recognized(args.model)
    \/ ~InRange(args.temperature)

TemperatureLine == Line("Temperature must be in range (0..1.0]", "")

Shown(line) == \E i \in DOMAIN stdout : stdout[i] = line

C7_ValidationBeforeSdk ==
    entry = "main" =>
        /\ Times("create_context") <= 1 /\ Times("new_client") <= 1
        /\ Called("new_client") =>
                /\ ctx /= <<>>
                /\ 0 < FirstCall("create_context")
                /\ FirstCall("create_context") < FirstCall("new_client")
        /\ Called("query_text") =>
                /\ client /= <<>>
                /\ FirstCall("new_client") < FirstCall("query_text")
        /\ sdk.handles /= <<>> => Called("new_client") /\ ctx /= <<>>
        /\ sdk.invoked /= <<>> => Called("query_text") /\ client /= <<>>
        /\ (pc /= "start" /\ BadInput) =>
                /\ NoSdkActivity
                /\ (pc = "exited" /\ ~args.help) => status \in {1, 2}

C7_Witness ==
    /\ entry = "main" /\ pc = "exited" /\ status = 1
    /\ args.model = "gpt-5" /\ ~args.help
    /\ Called("create_context") /\ ~Called("new_client") /\ NoSdkActivity

C9_EveryFailureWrapped ==
    /\ (DirectQuery /\ last.invoked /= <<>> /\ ~result[1].ok) =>
            /\ result[1].error.kind = "ValueError"
            /\ result[1].error.msg = "LangChain API query failed"
    /\ (entry = "main" /\ Called("query_text") /\ exc /= <<>>) =>
            /\ exc[1].kind = "ValueError"
            /\ exc[1].msg = "LangChain API query failed"

\* The API-key variable of a provider, and whether the run found it missing.
KeyVar(provider) == ApiKeyVar[Upper[provider]]

KeyMissing(provider) == environ[KeyVar(provider)] \in {None, ""}

UrlVar(provider) == BaseUrlVar[Upper[provider]]

DirectBaseUrl == entry = "lib" /\ last.op = "get_base_url"

\* C11 as stated: get_base_url returns the default when the variable is absent
\* and a default is given, fails when it is absent and no default is given,
\* and returns the variable's value whenever the variable is set.
C11_SetValueAlwaysReturned ==
    DirectBaseUrl =>
        LET value == environ[UrlVar(last.provider)]
        IN  /\ (value = None /\ last.default /= None) =>
                    result[1] = Return(last.default)
            /\ (value = None /\ last.default = None) => ~result[1].ok
            /\ value /= None => result[1] = Return(value)

\* C11: get_base_url returns the default when the variable is absent and a
\* default is given, and fails with the error naming the variable when it is
\* absent and no default is given; a variable set to a non-empty value is
\* returned; a variable set to the empty string is returned (as "") when a
\* default is given and fails like an absent one when no default is given.
C11_BaseUrlOrDefault ==
    DirectBaseUrl =>
        LET value == environ[UrlVar(last.provider)]
            unset == result[1] = Raise(Error("ValueError",
                                             "environment variable not set",
                                             UrlVar(last.provider)))
        IN  /\ (value = None /\ last.default /= None) =>
                    result[1] = Return(last.default)
            /\ (value = None /\ last.default = None) => unset
            /\ Truthy(value) => result[1] = Return(value)
            /\ (value = "" /\ last.default /= None) => result[1] = Return("")
            /\ (value = "" /\ last.default = None) => unset

C11_Witness ==
    /\ DirectBaseUrl /\ last.provider = ANTHROPIC
    /\ last.default = "https://api.anthropic.com"
    /\ environ["ANTHROPIC_BASE_URL"] = None
    /\ result[1] = Return("https://api.anthropic.com")

ConfigurationFailure(outcome) ==
    ~outcome.ok /\ outcome.error.msg = "environment variable not set"

\* C12: with the provider's API key set and {PROVIDER}_BASE_URL unset, the
\* Anthropic, OpenAI and Gemini constructors do not fail on configuration,
\* and the Llama constructor fails naming LLAMA_BASE_URL.
C12_BaseUrlOptionalExceptLlama ==
    (/\ DirectConstruction
     /\ Truthy(environ[KeyVar(last.provider)])
     /\ environ[UrlVar(last.provider)] = None) =>
        IF last.provider = LLAMA
            THEN /\ ConfigurationFailure(result[1])
                 /\ result[1].error.arg = "LLAMA_BASE_URL"
            ELSE ~ConfigurationFailure(result[1])

DirectNewClient == entry = "lib" /\ last.op = "new_client"

\* The provider-client constructors in the call log, in call order.
ConstructorsCalled == SelectSeq(calls, LAMBDA op : op \in Providers)

ClientClass ==
    (GEMINI :> "GeminiClient") @@ (ANTHROPIC :> "AnthropicClient") @@
    (OPENAI :> "OpenAIClient") @@ (LLAMA :> "LlamaClient")

DirectCreateContext == entry = "lib" /\ last.op = "create_context"

UnrecognizedModel(outcome, model) ==
    outcome = Raise(Error("ValueError", "Unrecognized provider",
                          get_model_alias(model)))

\* C14: both layers reject a model that is not in the registry:
\* create_context fails with the unrecognized-model error and returns no
\* Context, and new_client given such a model fails with the
\* unrecognized-model error and calls no provider-client constructor.
C14_BothLayersRejectUnknownModel ==
    /\ (/\ DirectCreateContext
        /\ last.command \in SupportedCommandSet
        /\ Truthy(last.model) /\ ~Recognized(last.model)) =>
            UnrecognizedModel(result[1], last.model)
    /\ (DirectNewClient /\ ~Recognized(last.model)) =>
            /\ UnrecognizedModel(result[1], last.model)
            /\ ConstructorsCalled = <<>>
            /\ sdk.handles = <<>>

\* C15: every Context returned by create_context has model equal to the
\* alias-resolved form of the model argument, that model is a key of the
\* registry, and provider is the registry's provider for it.
C15_ProviderDerivedFromModel ==
    /\ (DirectCreateContext /\ result[1].ok) =>
            LET context == result[1].value
            IN  /\ context.model = get_model_alias(last.model)
                /\ context.model \in DOMAIN MODEL_TO_PROVIDER
                /\ context.provider = MODEL_TO_PROVIDER[context.model]
    /\ (entry = "main" /\ ctx /= <<>>) =>
            /\ ctx[1].model = get_model_alias(args.model)
            /\ ctx[1].model \in DOMAIN MODEL_TO_PROVIDER
            /\ ctx[1].provider = MODEL_TO_PROVIDER[ctx[1].model]

C15_Witness ==
    /\ DirectCreateContext /\ last.model = "claude-3-5-sonnet"
    /\ result[1].ok
    /\ result[1].value.model = "claude-3-5-sonnet-latest"
    /\ result[1].value.provider = ANTHROPIC

\* C16: for every command of the enumeration (query, plan, code, review,
\* help) the returned Context.system is the system-prompt text registered
\* for that command, never None; a command outside the enumeration is fatal.
C16_SystemPromptForEveryCommand ==
    /\ (DirectCreateContext /\ result[1].ok) =>
            /\ last.command \in SupportedCommandSet
            /\ result[1].value.system /= None
            /\ result[1].value.system = SystemPromptFor(last.command)
    /\ (DirectCreateContext /\ last.command \notin SupportedCommandSet) =>
            ~result[1].ok
    /\ (entry = "main" /\ ctx /= <<>>) =>
            /\ ctx[1].system /= None
            /\ ctx[1].system = SystemPromptFor(args.command)

\* prompts = [prompt] + [content of each file, in order]
PromptsOf(prompt, files) ==
    <<IF prompt \in {"", None} THEN "hello world" ELSE prompt>>
        \o [i \in 1..Len(files) |-> FileText[files[i]]]

\* C17: when every entry of files is a readable local file, the Context
\* returned by create_context has len(prompts) = 1 + len(files), prompts[1]
\* is the (possibly defaulted) user prompt and prompts[i+1] is the content
\* of files[i], in input order.
C17_PromptThenFilesInOrder ==
    /\ (DirectCreateContext /\ result[1].ok) =>
            /\ AllFilesExist(last.files)
            /\ Len(result[1].value.prompts) = 1 + Len(last.files)
            /\ result[1].value.prompts = PromptsOf(last.prompt, last.files)
    /\ (entry = "main" /\ ctx /= <<>>) =>
            /\ AllFilesExist(args.files_or_urls)
            /\ Len(ctx[1].prompts) = 1 + Len(args.files_or_urls)
            /\ ctx[1].prompts = PromptsOf(stdin_content, args.files_or_urls)

C17_Witness ==
    /\ DirectCreateContext /\ last.files = <<"b.txt", "a.txt">>
    /\ last.prompt = "explain this"
    /\ result[1].ok
    /\ result[1].value.prompts =
            <<"explain this", "text of b.txt", "text of a.txt">>

\* urlparse(source) has both a scheme and a network location.
IsUrl(source) == source = "http://example.com"

FileOrUrl(files) == \A i \in DOMAIN files : isfile(files[i]) \/ IsUrl(files[i])

\* C18: every positional argument, file path or URL, has its content
\* appended to the prompt list, in argument order, after the stdin prompt;
\* a URL argument is not rejected as a missing file.
C18_UrlContentAppended ==
    (/\ entry = "main" /\ Called("create_context")
     /\ Recognized(args.model) /\ InRange(args.temperature)
     /\ FileOrUrl(args.files_or_urls)) =>
        /\ exc = <<>> \/ exc[1].kind /= "FileNotFoundError"
        /\ ctx /= <<>>
        /\ Len(ctx[1].prompts) = 1 + Len(args.files_or_urls)
        /\ \A i \in DOMAIN args.files_or_urls :
                isfile(args.files_or_urls[i]) =>
                    ctx[1].prompts[i + 1] = FileText[args.files_or_urls[i]]

\* main has gone past its checks of the parsed arguments.
ArgsChecked == entry = "main" /\ pc \notin {"start", "parsed"} /\ status /= 2

StdinStepDone == ArgsChecked /\ ~args.help /\ Truthy(args.model) /\ pc /= "stdin"

HelpThenError ==
    /\ Len(stdout) >= 2
    /\ stdout[Len(stdout) - 1] = HelpText
    /\ stdout[Len(stdout)].text \in {"Error", "Unexpected error",
                                     "Error: Model is required"}

\* C21: every error of a CLI run ends in main's outermost handler, which
\* prints the help text followed by the error message and exits with
\* status 1; a successful run exits with status 0; no run that ends on an
\* error ends without the help text printed first.
C21_EveryErrorThroughHandler ==
    (entry = "main" /\ pc = "exited") =>
        /\ status \in {0, 1}
        /\ status = 0 => exc = <<>>
        /\ status = 1 => HelpThenError
        /\ exc /= <<>> => status = 1 /\ HelpThenError

DirectClose == entry = "lib" /\ last.op = "close"

\* C22: close() on a provider client raises nothing and leaves the client
\* and its SDK handle as they were, however many times it is called and
\* wherever it falls relative to the queries; the client keeps the handle
\* its constructor built through every close and query.
C22_CloseIsNoOp ==
    /\ DirectClose =>
            /\ result[1] = Return(None)
            /\ client = last.client
            /\ sdk = last.sdk
    /\ (entry = "lib" /\ pc = "lib_client") =>
            /\ Len(client) = 1 /\ Len(sdk.handles) = 1
            /\ client[1].llm = sdk.handles[1]

C22_Witness ==
    /\ DirectClose /\ calls = <<"close", "close">>
    /\ client[1].cls = "LlamaClient"
    /\ result[1] = Return(None)
    /\ client[1].llm = sdk.handles[1] /\ sdk.invoked = <<>>

DirectOptions == entry = "lib" /\ last.op = "Options"

WithinMinMax(temperature) ==
    MIN_TEMPERATURE <= temperature /\ temperature <= MAX_TEMPERATURE

ConstructorResults(model) ==
    {Constructor(MODEL_TO_PROVIDER[model], model, environ, init) : init \in SdkInits}

ValidCommandAndModel ==
    DirectCreateContext /\ last.command \in SupportedCommandSet /\ Truthy(last.model)

\* C26 as stated: the provider lookup is the final step of create_context,
\* so with an unrecognized model together with an out-of-range temperature
\* or a missing file, the temperature or file error is the one reported.
C26_ProviderLookupLast ==
    (/\ ValidCommandAndModel /\ ~Recognized(last.model)
     /\ (~InRange(last.temperature) \/ ~AllFilesExist(last.files))) =>
        IF ~InRange(last.temperature)
            THEN result[1] = SysExit(1) /\ stdout = <<TemperatureLine>>
            ELSE result[1] = Raise(Error("FileNotFoundError", "", ""))

\* C26: in create_context the provider lookup follows command validation,
\* the model check and alias resolution, and precedes temperature
\* validation, prompt defaulting and the reading of the files.  With an
\* unrecognized model the unrecognized-model error is the one reported,
\* whatever the temperature and the files, and nothing is printed; the
\* temperature error is reported only for a recognized model, and the
\* missing-file error only for a recognized model and a valid temperature.
C26_ProviderLookupBeforeTemperature ==
    ValidCommandAndModel =>
        IF ~Recognized(last.model)
            THEN UnrecognizedModel(result[1], last.model) /\ stdout = <<>>
        ELSE IF ~InRange(last.temperature)
            THEN /\ ~result[1].ok /\ result[1].error.kind = "SystemExit"
                 /\ stdout = <<TemperatureLine>>
        ELSE IF ~AllFilesExist(last.files)
            THEN result[1] = Raise(Error("FileNotFoundError", "", ""))
        ELSE result[1].ok

C26_Witness ==
    /\ DirectCreateContext /\ last.command = "query" /\ last.model = "gpt-5"
    /\ last.temperature = 1500 /\ last.files = <<"nofile.txt">>
    /\ UnrecognizedModel(result[1], "gpt-5") /\ stdout = <<>>

\* C27: the query operation of every provider client leaves the temperature
\* and temperature_scale of the Options object it was handed as they were
\* before the call, whether the call succeeds or fails.
C27_QueryLeavesOptionsUnchanged ==
    DirectQuery =>
        /\ opts[1].temperature = last.options.temperature
        /\ opts[1].temperature_scale = last.options.temperature_scale

\* C28: for every model name on which get_provider_name returns a provider,
\* canonical names and alias names alike, new_client dispatches to the
\* constructor of that provider and does not fail on the lookup.
C28_FactoryAgreesWithRegistry ==
    (DirectNewClient /\ get_provider_name(last.model).ok) =>
        /\ ConstructorsCalled = <<get_provider_name(last.model).value>>
        /\ result[1].ok \/ result[1].error.kind /= "KeyError"

\* C29: the alias table is closed over the registry: every alias target is
\* a key of MODEL_TO_PROVIDER and none is itself an alias key, so
\* get_model_alias applied twice gives what it gives applied once, and
\* get_provider_name succeeds on every alias name with the provider of the
\* alias target.
C29_AliasTableClosed ==
    /\ \A alias \in DOMAIN MODEL_ALIAS :
            /\ MODEL_ALIAS[alias] \in DOMAIN MODEL_TO_PROVIDER
            /\ MODEL_ALIAS[alias] \notin DOMAIN MODEL_ALIAS
    /\ LookedUp =>
            /\ get_model_alias(get_model_alias(last.name)) = get_model_alias(last.name)
            /\ result[1] = get_provider_name(last.name)
            /\ last.name \in DOMAIN MODEL_ALIAS =>
                    result[1] = Return(MODEL_TO_PROVIDER[MODEL_ALIAS[last.name]])

C29_Witness ==
    /\ LookedUp /\ last.name = "claude-3-opus"
    /\ get_model_alias(last.name) = "claude-3-opus-latest"
    /\ result[1] = Return(ANTHROPIC)

\* C30: whenever get_base_url returns, for any state of the variable and
\* with or without a default, what it returns is a non-empty string; no SDK
\* constructor that takes a base URL is handed an empty or absent one.
C30_BaseUrlNeverEmpty ==
    /\ (DirectBaseUrl /\ result[1].ok) => Truthy(result[1].value)
    /\ \A i \in DOMAIN sdk.handles :
            sdk.handles[i].cls /= "ChatGoogleGenerativeAI" =>
                Truthy(sdk.handles[i].base_url)

====
